---- MODULE Spec2Model ----
(***************************************************************************)
(* Model of app/src/lib/git/checkout.ts: the checkout operations of the    *)
(* git command execution core (checkoutBranch, checkoutCommit), their      *)
(* argument builders and the progress adapter built by getCheckoutOpts.    *)
(*                                                                         *)
(* Strings of the program are TLA+ strings; the text git writes to its     *)
(* progress stream is a sequence of one-character tokens, "K" standing for *)
(* the title "Checking out files: ", so that line reassembly and percent   *)
(* parsing are computed and not assumed.  A percentage in [0,1] is kept as *)
(* an integer number of hundredths.                                        *)
(***************************************************************************)
EXTENDS Integers, Sequences, FiniteSets, TLC

\* ------------------------------------------------------------------ bounds
\* Lines the git subprocess writes during one invocation.
MaxLines == 2
\* Invocations a caller starts one after the other on one slot.
MaxCalls == 2
\* open() requests the autocompleting text input starts.
MaxRequests == 2

\* ------------------------------------------------------------ input domain
\* The invocation slots a caller uses.
Invs == {1}

LocalBranch(n) == [name |-> n, type |-> "Local", nameWithoutRemote |-> n]

RemoteBranch(n, l) == [name |-> n, type |-> "Remote", nameWithoutRemote |-> l]

Branches ==
  { LocalBranch("main"), RemoteBranch("origin/feature-x", "feature-x") }

Commits == { [sha |-> "abc123def4567890"] }

\* Path lists given to checkoutPaths.
PathLists ==
  { << >>, << "a.txt" >>, << "a.txt", "b.txt" >>, << "b.txt", "a.txt" >> }

\* No callback, a callback that returns, a callback that throws.
Sinks == { "none", "returns", "throws" }

LF == "\n"

CR == "\r"

Delimiters == { LF, CR }

Digits == { "0", "2", "5" }

DigitVal(c) == CASE c = "0" -> 0 [] c = "2" -> 2 [] c = "5" -> 5

\* What git can write on one line of its progress stream.
GitLines == { <<"K", "2", "5", "%">>, <<"K", "5", "0", "%">>, <<"x">> }

\* ------------------------------------------------------- pure helper parts
Last(s) == s[Len(s)]

Contains(s, e) == \E k \in 1..Len(s) : s[k] = e

Count(s, e) == Cardinality({ k \in 1..Len(s) : s[k] = e })

\* The last n elements of s (all of s when it is shorter).
Suffix(s, n) == IF Len(s) <= n THEN s ELSE SubSeq(s, Len(s) - n + 1, Len(s))

shortenSHA(sha) == CASE sha = "abc123def4567890" -> "abc123def"

gitNetworkArguments == << "-c", "credential.helper=" >>

\* Variant: the network arguments are only added when progress is tracked.
getCheckoutArgsBareWithoutProgress(progressCallback) ==
  IF progressCallback # "none"
    THEN gitNetworkArguments \o << "checkout", "--progress" >>
    ELSE << "checkout" >>

\* Variant: --progress is always passed.
getCheckoutArgsAlwaysProgress(progressCallback) ==
  gitNetworkArguments \o << "checkout", "--progress" >>

getCheckoutArgs(progressCallback) ==
  IF progressCallback # "none"
    THEN gitNetworkArguments \o << "checkout", "--progress" >>
    ELSE gitNetworkArguments \o << "checkout" >>

\* Variant: the full remote name is repeated after -b.
getBranchCheckoutArgsFullNameAfterB(branch, enableRecurseSubmodulesFlag) ==
  IF enableRecurseSubmodulesFlag
    THEN IF branch.type = "Remote"
           THEN << branch.name, "-b", branch.name,
                   "--recurse-submodules", "--" >>
           ELSE << branch.name, "--recurse-submodules", "--" >>
    ELSE IF branch.type = "Remote"
           THEN << branch.name, "-b", branch.name, "--" >>
           ELSE << branch.name, "--" >>

\* Variant: only remote branches get --recurse-submodules.
getBranchCheckoutArgsLocalNoRecurse(branch, enableRecurseSubmodulesFlag) ==
  IF branch.type = "Remote"
    THEN IF enableRecurseSubmodulesFlag
           THEN << branch.name, "-b", branch.nameWithoutRemote,
                   "--recurse-submodules", "--" >>
           ELSE << branch.name, "-b", branch.nameWithoutRemote, "--" >>
    ELSE << branch.name, "--" >>

\* Variant: --recurse-submodules is appended after the separator.
getBranchCheckoutArgsRecurseLast(branch, enableRecurseSubmodulesFlag) ==
  (IF branch.type = "Remote"
     THEN << branch.name, "-b", branch.nameWithoutRemote, "--" >>
     ELSE << branch.name, "--" >>)
    \o (IF enableRecurseSubmodulesFlag
          THEN << "--recurse-submodules" >> ELSE << >>)

\* Variant: with the flag on, a remote branch is checked out by its full
\* name alone, like a local one.
getBranchCheckoutArgsNoDashBWithFlag(branch, enableRecurseSubmodulesFlag) ==
  IF enableRecurseSubmodulesFlag
    THEN << branch.name, "--recurse-submodules", "--" >>
    ELSE IF branch.type = "Remote"
           THEN << branch.name, "-b", branch.nameWithoutRemote, "--" >>
           ELSE << branch.name, "--" >>

getBranchCheckoutArgs(branch, enableRecurseSubmodulesFlag) ==
  IF enableRecurseSubmodulesFlag
    THEN IF branch.type = "Remote"
           THEN << branch.name, "-b", branch.nameWithoutRemote,
                   "--recurse-submodules", "--" >>
           ELSE << branch.name, "--recurse-submodules", "--" >>
    ELSE IF branch.type = "Remote"
           THEN << branch.name, "-b", branch.nameWithoutRemote, "--" >>
           ELSE << branch.name, "--" >>

\* ------------------------------------------------- progress stream parser
IsDelimiter(c) == c \in Delimiters

RECURSIVE SplitLines(_, _, _)
\* Reassembles lines: scans text after the partial line cur, returning the
\* completed lines and the partial line left in the buffer.
SplitLines(done, cur, text) ==
  IF text = << >>
    THEN [lines |-> done, buffer |-> cur]
    ELSE IF IsDelimiter(Head(text))
           THEN SplitLines(Append(done, cur), << >>, Tail(text))
           ELSE SplitLines(done, Append(cur, Head(text)), Tail(text))

RECURSIVE Decimal(_)
Decimal(ds) ==
  IF ds = << >> THEN 0
  ELSE 10 * Decimal(SubSeq(ds, 1, Len(ds) - 1)) + DigitVal(Last(ds))

\* "Checking out files: NN%" is the one recognised pattern of a checkout.
MatchesProgress(line) ==
  /\ Len(line) >= 3
  /\ line[1] = "K"
  /\ Last(line) = "%"
  /\ \A k \in 2..(Len(line) - 1) : line[k] \in Digits

ParseLine(line) ==
  IF MatchesProgress(line)
    THEN [kind |-> "progress",
          percent |-> Decimal(SubSeq(line, 2, Len(line) - 1)),
          details |-> [text |-> line]]
    ELSE [kind |-> "raw", details |-> [text |-> line]]

RECURSIVE ParseAll(_)
ParseAll(lines) ==
  IF lines = << >> THEN << >>
  ELSE << ParseLine(Head(lines)) >> \o ParseAll(Tail(lines))

\* Variant: a chunk is split on its own, the buffered partial line is lost.
FeedForgetsPartialLine(buffer, chunk) ==
  LET r == SplitLines(<< >>, << >>, chunk)
  IN  [parsed |-> ParseAll(r.lines), buffer |-> r.buffer]

\* feed(chunk): the parsed lines the chunk completes, and the new buffer.
Feed(buffer, chunk) ==
  LET r == SplitLines(<< >>, buffer, chunk)
  IN  [parsed |-> ParseAll(r.lines), buffer |-> r.buffer]

\* finish(): a buffered partial line is flushed as a last line.
Finish(buffer) ==
  IF buffer = << >> THEN << >> ELSE << ParseLine(buffer) >>

\* Variant: the separator follows the paths.
checkoutPathsArgsSeparatorLast(paths) ==
  << "checkout", "HEAD" >> \o paths \o << "--" >>

\* The argument list checkoutPaths hands to git.
checkoutPathsArgs(paths) == << "checkout", "HEAD", "--" >> \o paths

\* --------------------------------------------------------- error classifier
\* sub occurs in text as a run of consecutive words.
Infix(sub, text) ==
  \E k \in 0..(Len(text) - Len(sub)) :
    SubSeq(text, k + 1, k + Len(sub)) = sub

\* The recognised-error table the checkout operations pass.
AuthenticationErrors ==
  << [signature |-> << "Authentication", "failed" >>,
      kind |-> "Authentication"],
     [signature |-> << "Permission", "denied" >>,
      kind |-> "Authentication"] >>

ErrorTable(expectedErrors) ==
  IF expectedErrors = "AuthenticationErrors" THEN AuthenticationErrors
  ELSE << >>

\* Index of the first table entry whose signature occurs in text, else 0.
FirstMatch(table, text) ==
  LET hits == { k \in 1..Len(table) : Infix(table[k].signature, text) }
  IN  IF hits = {} THEN 0
      ELSE CHOOSE k \in hits : \A h \in hits : k <= h

\* classify: stderr is scanned first, then stdout; the exit code is not
\* looked at.
Classify(result, table) ==
  LET a == FirstMatch(table, result.stderr)
      b == FirstMatch(table, result.stdout)
      k == IF a # 0 THEN a ELSE b
  IN  [kind |-> IF k = 0 THEN "Generic" ELSE table[k].kind,
       signature |-> IF k = 0 THEN << >> ELSE table[k].signature,
       code |-> result.code, stderr |-> result.stderr,
       stdout |-> result.stdout]

GitSuccess == [code |-> 0, stderr |-> << >>, stdout |-> << >>]

\* How a git checkout can fail: rejected credentials, an unknown pathspec,
\* a refused key reported on stdout.
GitFailures ==
  { [code |-> 128,
     stderr |-> << "fatal:", "Authentication", "failed", "for", "url" >>,
     stdout |-> << >>],
    [code |-> 1, stderr |-> << "error:", "pathspec", "unknown" >>,
     stdout |-> << >>],
    [code |-> 128, stderr |-> << >>,
     stdout |-> << "Permission", "denied", "(publickey)" >>] }

GitResults == { GitSuccess } \cup GitFailures

\* ------------------------------------------------------- progress adapter
\* Variant: the title is reused as the description.
ProgressEventTitleAsDescription(kind, title, target, progress) ==
  [kind |-> kind, title |-> title, description |-> title,
   value |-> progress.percent, target |-> target]

\* Variant: the value is the share still to do.
ProgressEventRemaining(kind, title, target, progress) ==
  [kind |-> kind, title |-> title,
   description |-> progress.details.text,
   value |-> 100 - progress.percent, target |-> target]

\* Variant: the line's text replaces the title.
ProgressEventLineAsTitle(kind, title, target, progress) ==
  [kind |-> kind, title |-> progress.details.text,
   description |-> progress.details.text,
   value |-> progress.percent, target |-> target]

\* The event the callback of getCheckoutOpts builds for one parsed line.
ProgressEvent(kind, title, target, progress) ==
  [kind |-> kind, title |-> title,
   description |-> progress.details.text,
   value |-> progress.percent, target |-> target]

\* The onEvent callback handed to executionOptionsWithProgress: the events
\* it delivers for one parsed line.
OnParsed(kind, title, target, progress) ==
  IF progress.kind = "progress"
    THEN << ProgressEvent(kind, title, target, progress) >>
    ELSE << >>

RECURSIVE Forward(_, _, _, _)
Forward(kind, title, target, parsed) ==
  IF parsed = << >> THEN << >>
  ELSE OnParsed(kind, title, target, Head(parsed))
         \o Forward(kind, title, target, Tail(parsed))

InitialEvent(kind, title, target, initialDescription) ==
  [kind |-> kind, title |-> title,
   description |-> IF initialDescription = << >> THEN title
                   ELSE initialDescription,
   value |-> 0, target |-> target]

\* ------------------------------------------- autocompleting text input
\* AutocompletingTextInput, the React component of the same file.  The
\* text of the element is a sequence of tokens; "@" starts the word the
\* one provider completes.  An item is a string, the null item is NullItem,
\* and indexing past a list gives Undefined, as items[row] does.
NullItem == "null"

Undefined == "undefined"

\* element.selectionStart of an element that has no selection.
NullCaret == -1

\* No row: indexOf of a missing item, selectedRowId undefined.
NoRow == -1

\* Texts the user leaves in the element.
Texts == { << "x" >>, << "@" >>, << "@", "a" >> }

\* Lists the provider's lookup resolves with.
ItemLists == { << >>, << "a", "b" >>, << "b", "a", "c" >> }

\* The values of the autocompleteItemFilter prop: none, or one that
\* rejects item b.
Filters == { "none", "notB" }

Keys == { "ArrowUp", "ArrowDown", "Enter", "Tab", "Escape", "a" }

\* items[row] with a 0-based row.
At(items, row) ==
  IF row \in 0..(Len(items) - 1) THEN items[row + 1] ELSE Undefined

\* items.indexOf(item), 0-based, NoRow when absent.
IndexOf(items, item) ==
  IF \E k \in 1..Len(items) : items[k] = item
    THEN (CHOOSE k \in 1..Len(items) :
            items[k] = item /\ \A j \in 1..(k - 1) : items[j] # item) - 1
    ELSE NoRow

RECURSIVE FilterItems(_, _)
\* items.filter(autocompleteItemFilter).
FilterItems(items, filter) ==
  IF items = << >> THEN << >>
  ELSE (IF filter = "notB" /\ Head(items) = "b" THEN << >>
        ELSE << Head(items) >>) \o FilterItems(Tail(items), filter)

\* state.autocompletionState === null.
NullState ==
  [null |-> TRUE, items |-> << >>, range |-> [start |-> 0, length |-> 0],
   rangeText |-> << >>, selectedItem |-> NullItem, selectedRowId |-> NoRow]

NoMatch == [found |-> FALSE, text |-> << >>,
            range |-> [start |-> 0, length |-> 0]]

\* The word tokens of str from 1-based position p on.
RECURSIVE WordFrom(_, _)
WordFrom(str, p) ==
  IF p > Len(str) \/ str[p] \in { "@", " " } THEN << >>
  ELSE << str[p] >> \o WordFrom(str, p + 1)

\* The synchronous part of attemptAutocompletion: the provider's regex run
\* over str; a match counts when it ends at the caret or when the input
\* always autocompletes.
Match(str, caretPosition, alwaysAutocomplete) ==
  LET hits == { p \in 1..Len(str) :
                  /\ str[p] = "@"
                  /\ \/ p + Len(WordFrom(str, p + 1)) = caretPosition
                     \/ alwaysAutocomplete }
  IN  IF hits = {} THEN NoMatch
      ELSE LET p == CHOOSE q \in hits : \A h \in hits : q <= h
               text == WordFrom(str, p + 1)
           IN  [found |-> TRUE, text |-> text,
                range |-> [start |-> p, length |-> Len(text)]]

\* What attemptAutocompletion resolves with once the provider's lookup gave
\* items: null without a match, else a state with nothing selected.
AttemptResult(match, items, filter) ==
  IF ~match.found THEN NullState
  ELSE [null |-> FALSE, items |-> FilterItems(items, filter),
        range |-> match.range, rangeText |-> match.text,
        selectedItem |-> NullItem, selectedRowId |-> NoRow]

\* findNextSelectableRow over rowCount selectable rows: one row up or down,
\* wrapping at the ends; none when there is no row.
findNextSelectableRow(rowCount, direction, row) ==
  IF rowCount = 0 THEN NoRow
  ELSE IF direction = "down"
    THEN (IF row = NoRow \/ row >= rowCount - 1 THEN 0 ELSE row + 1)
  ELSE (IF row = NoRow \/ row = 0 THEN rowCount - 1 ELSE row - 1)

getMovementDirection(key) ==
  CASE key = "ArrowUp" -> "up"
    [] key = "ArrowDown" -> "down"
    [] OTHER -> "none"

\* Variant: the row is taken as 1-based.
WithSelectedRowOneBased(state, row) ==
  [state EXCEPT !.selectedItem = At(state.items, row + 1),
                !.selectedRowId = row]

\* The state with the item of a row selected (onSelectedRowChanged and the
\* arrow keys of onKeyDown).
WithSelectedRow(state, row) ==
  [state EXCEPT !.selectedItem = At(state.items, row),
                !.selectedRowId = row]

\* The component as constructed: no element yet, popup closed, no request
\* made.  pending holds the open() calls suspended on their lookup, each
\* with whether close() ran since it started; lastWrite tells which request
\* last set the state from open() and whether close() had run since that
\* request started; ignored is the last request whose result was dropped.
Constructed(alwaysAutocomplete) ==
  [element |-> "null", value |-> << >>,
   alwaysAutocomplete |-> alwaysAutocomplete,
   autocompleteItemFilter |-> "none",
   autocompletionRequestID |-> 0,
   autocompletionState |-> NullState,
   pending |-> {},
   lastWrite |-> [requestID |-> 0, closedSince |-> FALSE],
   ignored |-> 0]

\* ------------------------------------------------------------------ state
VARIABLES
  inv,                       \* per invocation slot: the running call
  calls,                     \* per slot: calls started so far
  enableRecurseSubmodules,   \* the feature flag, as the flag source has it
  darwin,                    \* the build constant __DARWIN__
  parsers,                   \* the CheckoutProgressParser instances made so
                             \* far: the line buffer of each
  feeding,                   \* a parser fed one line on its own: the text,
                             \* what is left to feed, the lines it gave
  input                      \* the autocompleting text input

vars ==
  << inv, calls, enableRecurseSubmodules, darwin, parsers, feeding, input >>

NoBranch == [name |-> "", type |-> "Local", nameWithoutRemote |-> ""]

NoCommit == [sha |-> ""]

\* No parser is being fed on its own.
NotFeeding == [text |-> << >>, rest |-> << >>, out |-> << >>, chunks |-> 0]

NoOpts == [env |-> {}, expectedErrors |-> "", trackLFSProgress |-> FALSE,
           processCallback |-> FALSE]

\* The subprocess has not exited.
NoExit == [code |-> -1, stderr |-> << >>, stdout |-> << >>]

NoError == [kind |-> "none", signature |-> << >>, code |-> -1,
            stderr |-> << >>, stdout |-> << >>]

\* What the callback threw.
SinkException == [kind |-> "exception", signature |-> << >>, code |-> -1,
                  stderr |-> << >>, stdout |-> << >>]

Idle ==
  [pc |-> "idle", op |-> "", branch |-> NoBranch, commit |-> NoCommit,
   paths |-> << >>,
   account |-> "null", progressCallback |-> "none",
   title |-> << >>, target |-> "", initialDescription |-> << >>,
   opts |-> NoOpts, args |-> << >>, gitArgs |-> << >>, flagAtBuild |-> FALSE,
   flagBefore |-> "none",
   events |-> << >>, parsed |-> << >>, parser |-> 0,
   proc |-> "none", pipe |-> << >>, written |-> 0, spawned |-> 0,
   settles |-> 0,
   outcome |-> "pending", exit |-> NoExit, error |-> NoError]

Init ==
  /\ inv = [i \in Invs |-> Idle]
  /\ calls = [i \in Invs |-> 0]
  /\ enableRecurseSubmodules \in BOOLEAN
  /\ darwin \in BOOLEAN
  /\ parsers = << >>
  /\ feeding = NotFeeding
  /\ input = Constructed(FALSE)

\* envForRemoteOperation: the environment overlay of a remote operation.
envForRemoteOperation(account) ==
  IF account = "null" THEN { "GIT_TERMINAL_PROMPT" }
  ELSE { "GIT_TERMINAL_PROMPT", "GIT_ASKPASS" }

\* executionOptionsWithProgress: the options with the parser's process
\* callback attached, every other field kept.
executionOptionsWithProgress(options) ==
  [options EXCEPT !.processCallback = TRUE]

\* ------------------------------------------------------------- operations
\* What the branch argument builder last read from the flag source in the
\* calls made so far on a slot: none, on or off.
FlagRead(c) ==
  IF c.op = "checkoutBranch" /\ c.args # << >>
    THEN (IF c.flagAtBuild THEN "on" ELSE "off")
    ELSE c.flagBefore

\* checkoutBranch is called: its arguments to getCheckoutOpts are fixed and
\* getCheckoutOpts suspends on envForRemoteOperation.
CallCheckoutBranch(i, branch, account, progressCallback) ==
  /\ inv[i].pc \in { "idle", "settled" }
  /\ calls[i] < MaxCalls
  /\ calls' = [calls EXCEPT ![i] = @ + 1]
  /\ inv' = [inv EXCEPT ![i] =
       [Idle EXCEPT
          !.pc = "env", !.op = "checkoutBranch", !.branch = branch,
          !.flagBefore = FlagRead(inv[i]),
          !.account = account, !.progressCallback = progressCallback,
          !.title = << "Checking out branch ", branch.name >>,
          !.target = branch.name,
          !.initialDescription =
             << "Switching to ", IF darwin THEN "Branch" ELSE "branch" >>]]
  /\ UNCHANGED << enableRecurseSubmodules, darwin, parsers, feeding, input >>

\* checkoutCommit is called; it passes no initial description.
CallCheckoutCommit(i, commit, account, progressCallback) ==
  /\ inv[i].pc \in { "idle", "settled" }
  /\ calls[i] < MaxCalls
  /\ calls' = [calls EXCEPT ![i] = @ + 1]
  /\ inv' = [inv EXCEPT ![i] =
       [Idle EXCEPT
          !.pc = "env", !.op = "checkoutCommit", !.commit = commit,
          !.flagBefore = FlagRead(inv[i]),
          !.account = account, !.progressCallback = progressCallback,
          !.title =
             << "Checking out ", IF darwin THEN "Commit" ELSE "commit" >>,
          !.target = shortenSHA(commit.sha)]]
  /\ UNCHANGED << enableRecurseSubmodules, darwin, parsers, feeding, input >>

\* checkoutPaths is called: it calls git at once, with no options, and
\* suspends until the subprocess has exited.
CallCheckoutPaths(i, paths) ==
  /\ inv[i].pc \in { "idle", "settled" }
  /\ calls[i] < MaxCalls
  /\ calls' = [calls EXCEPT ![i] = @ + 1]
  /\ inv' = [inv EXCEPT ![i] =
       [Idle EXCEPT
          !.pc = "git", !.op = "checkoutPaths", !.paths = paths,
          !.flagBefore = FlagRead(inv[i]),
          !.args = checkoutPathsArgs(paths),
          !.gitArgs = checkoutPathsArgs(paths),
          !.proc = "running", !.spawned = 1]]
  /\ UNCHANGED << enableRecurseSubmodules, darwin, parsers, feeding, input >>

\* Variant: no initial event is delivered.
InitialProgressSkipped(c) == c.events

\* The callback's events after getCheckoutOpts delivered the initial one.
InitialProgress(c) ==
  Append(c.events,
         InitialEvent("checkout", c.title, c.target, c.initialDescription))

\* Variant: the options name no recognised errors.
BaseOptsWithoutExpectedErrors(account) ==
  [env |-> envForRemoteOperation(account), expectedErrors |-> "",
   trackLFSProgress |-> FALSE, processCallback |-> FALSE]

\* The opts object getCheckoutOpts starts from.
BaseOpts(account) ==
  [env |-> envForRemoteOperation(account),
   expectedErrors |-> "AuthenticationErrors",
   trackLFSProgress |-> FALSE, processCallback |-> FALSE]

\* Variant: the options handed to executionOptionsWithProgress are a new
\* object holding trackLFSProgress alone.
WithLFSProgressAlone(opts) == [NoOpts EXCEPT !.trackLFSProgress = TRUE]

\* { ...opts, trackLFSProgress: true }: a copy of opts with LFS progress
\* tracking switched on.
WithLFSProgress(opts) == [opts EXCEPT !.trackLFSProgress = TRUE]

\* Variant: one parser instance is kept and handed to every invocation.
NewCheckoutProgressParserShared(heap) ==
  IF heap = << >> THEN [ref |-> 1, heap |-> << << >> >>]
  ELSE [ref |-> 1, heap |-> heap]

\* new CheckoutProgressParser(): a new instance with an empty line buffer.
NewCheckoutProgressParser(heap) ==
  [ref |-> Len(heap) + 1, heap |-> Append(heap, << >>)]

\* Variant: an exception of the callback at the initial event is swallowed
\* and the operation carries on.
EnvResolvedSwallowsException(i) ==
  LET c == inv[i]
      opts == BaseOpts(c.account)
      new == NewCheckoutProgressParser(parsers)
  IN
  /\ c.pc = "env"
  /\ inv' = [inv EXCEPT ![i] =
       IF c.progressCallback = "none"
         THEN [c EXCEPT !.pc = "args", !.opts = opts]
       ELSE [c EXCEPT !.pc = "wrap",
                      !.opts = WithLFSProgress(opts),
                      !.events = InitialProgress(c),
                      !.parser = new.ref]]
  /\ parsers' = IF c.progressCallback # "none" THEN new.heap ELSE parsers
  /\ UNCHANGED << calls, enableRecurseSubmodules, darwin, feeding, input >>

\* getCheckoutOpts after the environment resolved: builds opts, returns
\* them when there is no callback, otherwise delivers the initial event
\* and suspends on executionOptionsWithProgress.  A callback that throws
\* rejects the whole operation.
EnvResolved(i) ==
  LET c == inv[i]
      opts == BaseOpts(c.account)
      new == NewCheckoutProgressParser(parsers)
  IN
  /\ c.pc = "env"
  /\ inv' = [inv EXCEPT ![i] =
       IF c.progressCallback = "none"
         THEN [c EXCEPT !.pc = "args", !.opts = opts]
       ELSE IF c.progressCallback = "throws"
         THEN [c EXCEPT !.pc = "settled", !.opts = opts,
                        !.events = InitialProgress(c),
                        !.settles = @ + 1, !.outcome = "error",
                        !.error = SinkException]
       ELSE [c EXCEPT !.pc = "wrap",
                      !.opts = WithLFSProgress(opts),
                      !.events = InitialProgress(c),
                      !.parser = new.ref]]
  /\ parsers' = IF c.progressCallback = "returns" THEN new.heap ELSE parsers
  /\ UNCHANGED << calls, enableRecurseSubmodules, darwin, feeding, input >>

\* executionOptionsWithProgress resolved: getCheckoutOpts returns.
ProgressOptsResolved(i) ==
  /\ inv[i].pc = "wrap"
  /\ inv' = [inv EXCEPT ![i] =
       [@ EXCEPT !.pc = "args",
                 !.opts = executionOptionsWithProgress(@)]]
  /\ UNCHANGED << calls, enableRecurseSubmodules, darwin, parsers, feeding,
                  input >>

\* Variant: checkoutCommit passes the shortened SHA.
CheckoutArgsShortSHA(c, flag) ==
  getCheckoutArgs(c.progressCallback) \o
    (IF c.op = "checkoutBranch"
       THEN getBranchCheckoutArgs(c.branch, flag)
       ELSE << shortenSHA(c.commit.sha) >>)

\* Variant: the flag value read by an earlier call is reused.
CheckoutArgsCachedFlag(c, flag) ==
  getCheckoutArgs(c.progressCallback) \o
    (IF c.op = "checkoutBranch"
       THEN getBranchCheckoutArgs(c.branch,
              IF c.flagBefore = "none" THEN flag ELSE c.flagBefore = "on")
       ELSE << c.commit.sha >>)

\* The argument list of the operation, with the flag as read now.
CheckoutArgs(c, flag) ==
  getCheckoutArgs(c.progressCallback) \o
    (IF c.op = "checkoutBranch"
       THEN getBranchCheckoutArgs(c.branch, flag)
       ELSE << c.commit.sha >>)

\* Variant: the builder strips the remote prefix in the descriptor itself.
BuildArgsRenamesBranch(i) ==
  /\ inv[i].pc = "args"
  /\ inv' = [inv EXCEPT ![i] =
       [@ EXCEPT !.pc = "spawn",
                 !.args = CheckoutArgs(inv[i], enableRecurseSubmodules),
                 !.flagAtBuild = enableRecurseSubmodules,
                 !.branch.name = inv[i].branch.nameWithoutRemote]]
  /\ UNCHANGED << calls, enableRecurseSubmodules, darwin, parsers, feeding,
                  input >>

\* The operation builds its arguments and calls git.
BuildArgs(i) ==
  /\ inv[i].pc = "args"
  /\ inv' = [inv EXCEPT ![i] =
       [@ EXCEPT !.pc = "spawn",
                 !.args = CheckoutArgs(inv[i], enableRecurseSubmodules),
                 !.flagAtBuild = enableRecurseSubmodules]]
  /\ UNCHANGED << calls, enableRecurseSubmodules, darwin, parsers, feeding,
                  input >>

\* Variant: git is started but not awaited; the operation returns true.
GitStartNotAwaited(i) ==
  /\ inv[i].pc = "spawn"
  /\ inv' = [inv EXCEPT ![i] =
       [@ EXCEPT !.pc = "settled", !.proc = "running",
                 !.gitArgs = inv[i].args, !.spawned = @ + 1,
                 !.settles = @ + 1, !.outcome = "true"]]
  /\ UNCHANGED << calls, enableRecurseSubmodules, darwin, parsers, feeding,
                  input >>

\* await git(args, path, name, opts): the subprocess starts and the
\* operation suspends until it has exited.
GitStart(i) ==
  /\ inv[i].pc = "spawn"
  /\ inv' = [inv EXCEPT ![i] =
       [@ EXCEPT !.pc = "git", !.proc = "running",
                 !.gitArgs = inv[i].args, !.spawned = @ + 1]]
  /\ UNCHANGED << calls, enableRecurseSubmodules, darwin, parsers, feeding,
                  input >>

\* The subprocess writes one line, terminated or not, to its stream.
GitWrite(i, line, terminator) ==
  /\ inv[i].proc = "running"
  /\ inv[i].written < MaxLines
  /\ inv[i].pipe = << >>
  /\ inv' = [inv EXCEPT ![i] =
       [@ EXCEPT !.pipe = line \o terminator, !.written = @ + 1]]
  /\ UNCHANGED << calls, enableRecurseSubmodules, darwin, parsers, feeding,
                  input >>

\* Variant: title and target are kept in one place for all invocations and
\* are those of the last slot in use.
DeliverSharedLabels(c, parsed) ==
  LET used == { j \in DOMAIN inv : inv[j].title # << >> }
      last == CHOOSE j \in used : \A k \in used : k <= j
  IN  Forward("checkout", inv[last].title, inv[last].target, parsed)

\* The events a sequence of parsed lines makes the adapter deliver.
Deliver(c, parsed) == Forward("checkout", c.title, c.target, parsed)

\* The runner reads a chunk of k characters and, when a process callback
\* is attached, feeds it to the parser, whose lines reach the adapter.
ReadChunk(i, k) ==
  LET c == inv[i]
      chunk == SubSeq(c.pipe, 1, k)
      rest == SubSeq(c.pipe, k + 1, Len(c.pipe))
      fed == Feed(parsers[c.parser], chunk)
  IN
  /\ c.proc = "running"
  /\ k \in 1..Len(c.pipe)
  /\ inv' = [inv EXCEPT ![i] =
       IF c.opts.processCallback
         THEN [c EXCEPT !.pipe = rest,
                        !.parsed = @ \o fed.parsed,
                        !.events = @ \o Deliver(c, fed.parsed)]
         ELSE [c EXCEPT !.pipe = rest]]
  /\ parsers' = IF c.opts.processCallback
                  THEN [parsers EXCEPT ![c.parser] = fed.buffer]
                  ELSE parsers
  /\ UNCHANGED << calls, enableRecurseSubmodules, darwin, feeding, input >>

\* Variant: an authentication failure makes the operation call git again.
AfterGitRetriesAuthentication(c, error) ==
  IF error.kind = "none"
    THEN [c EXCEPT !.pc = "settled", !.settles = @ + 1, !.outcome = "true"]
  ELSE IF error.kind = "Authentication"
    THEN [c EXCEPT !.pc = "spawn"]
  ELSE [c EXCEPT !.pc = "settled", !.settles = @ + 1, !.outcome = "error",
                 !.error = error]

\* The continuation of await git(...): the operation returns true when
\* git() resolved and rejects with git()'s error when it rejected.
AfterGit(c, error) ==
  IF error.kind = "none"
    THEN [c EXCEPT !.pc = "settled", !.settles = @ + 1, !.outcome = "true"]
    ELSE [c EXCEPT !.pc = "settled", !.settles = @ + 1, !.outcome = "error",
                   !.error = error]

\* The subprocess exits once its stream is drained: the parser flushes its
\* buffer, then git() resolves, or rejects with the failure classified
\* against the options' recognised-error table; the operation waiting for
\* it continues.
GitExit(i, result) ==
  LET c == inv[i]
      flushed == IF c.opts.processCallback
                   THEN Finish(parsers[c.parser]) ELSE << >>
      d == [c EXCEPT !.proc = "exited",
                     !.parsed = @ \o flushed,
                     !.events = @ \o Deliver(c, flushed),
                     !.exit = result]
      error == IF result.code = 0 THEN NoError
               ELSE Classify(result, ErrorTable(c.opts.expectedErrors))
  IN
  /\ c.proc = "running"
  /\ c.pipe = << >>
  /\ inv' = [inv EXCEPT ![i] = IF c.pc = "git" THEN AfterGit(d, error) ELSE d]
  /\ parsers' = IF c.opts.processCallback
                  THEN [parsers EXCEPT ![c.parser] = << >>]
                  ELSE parsers
  /\ UNCHANGED << calls, enableRecurseSubmodules, darwin, feeding, input >>

\* The feature flag source changes its answer.
ToggleRecurseSubmodules ==
  /\ enableRecurseSubmodules' = ~enableRecurseSubmodules
  /\ UNCHANGED << inv, calls, darwin, parsers, feeding, input >>

Terminators == { << CR >>, << >> }

Accounts == { "null", "account" }

Next ==
  \/ \E i \in Invs, b \in Branches, a \in Accounts, cb \in Sinks :
        CallCheckoutBranch(i, b, a, cb)
  \/ \E i \in Invs, c \in Commits, a \in Accounts, cb \in Sinks :
        CallCheckoutCommit(i, c, a, cb)
  \/ \E i \in Invs, ps \in PathLists : CallCheckoutPaths(i, ps)
  \/ \E i \in Invs : EnvResolved(i)
  \/ \E i \in Invs : ProgressOptsResolved(i)
  \/ \E i \in Invs : BuildArgs(i)
  \/ \E i \in Invs : GitStart(i)
  \/ \E i \in Invs, l \in GitLines, t \in Terminators : GitWrite(i, l, t)
  \/ \E i \in Invs : \E k \in { 2, Len(inv[i].pipe) } : ReadChunk(i, k)
  \/ \E i \in Invs, r \in GitResults : GitExit(i, r)
  \/ ToggleRecurseSubmodules

Spec == Init /\ [][Next]_vars

\* ------------------------------------------- two invocations side by side
\* Two callers, one call each, whose steps interleave freely (one after
\* the other included).
ConcInvs == {1, 2}

ConcBranches == { RemoteBranch("origin/feature-x", "feature-x") }

ConcSinks == { "none", "returns" }

ConcLines == { <<"K", "2", "5", "%">>, <<"K", "5", "0", "%">> }

ConcResults == { GitSuccess }

InitConc ==
  /\ inv = [i \in ConcInvs |-> Idle]
  /\ calls = [i \in ConcInvs |-> 0]
  /\ enableRecurseSubmodules \in BOOLEAN
  /\ darwin = FALSE
  /\ parsers = << >>
  /\ feeding = NotFeeding
  /\ input = Constructed(FALSE)

NextConc ==
  \/ \E i \in ConcInvs, b \in ConcBranches, cb \in ConcSinks :
        calls[i] = 0 /\ CallCheckoutBranch(i, b, "null", cb)
  \/ \E i \in ConcInvs, c \in Commits, cb \in ConcSinks :
        calls[i] = 0 /\ CallCheckoutCommit(i, c, "null", cb)
  \/ \E i \in ConcInvs : EnvResolved(i)
  \/ \E i \in ConcInvs : ProgressOptsResolved(i)
  \/ \E i \in ConcInvs : BuildArgs(i)
  \/ \E i \in ConcInvs : GitStart(i)
  \/ \E i \in ConcInvs, l \in ConcLines : GitWrite(i, l, << LF >>)
  \/ \E i \in ConcInvs : \E k \in { 2, Len(inv[i].pipe) } : ReadChunk(i, k)
  \/ \E i \in ConcInvs, r \in ConcResults : GitExit(i, r)
  \/ ToggleRecurseSubmodules

SpecConc == InitConc /\ [][NextConc]_vars

\* ------------------------------------------------ a parser fed one line
\* Known progress lines and the percentage each states.
KnownLines ==
  { <<"K", "2", "5", "%">>, <<"K", "5", "0", "%">>, <<"K", "5", "%">>,
    <<"K", "2", "0", "%">>, <<"K", "0", "%">>, <<"K", "5", "5", "%">> }

KnownPercent(line) ==
  CASE line = <<"K", "2", "5", "%">> -> 25
    [] line = <<"K", "5", "0", "%">> -> 50
    [] line = <<"K", "5", "%">> -> 5
    [] line = <<"K", "2", "0", "%">> -> 20
    [] line = <<"K", "5", "5", "%">> -> 55
    [] line = <<"K", "0", "%">> -> 0

\* A new parser and one known line, ended by either delimiter, to feed it.
InitParser ==
  /\ inv = [i \in Invs |-> Idle]
  /\ calls = [i \in Invs |-> 0]
  /\ enableRecurseSubmodules = FALSE
  /\ darwin = FALSE
  /\ parsers = NewCheckoutProgressParser(<< >>).heap
  /\ \E line \in KnownLines, d \in Delimiters :
        feeding = [text |-> line \o << d >>, rest |-> line \o << d >>,
                   out |-> << >>, chunks |-> 0]
  /\ input = Constructed(FALSE)

\* feed(chunk) with the next k characters of the text.
FeedChunk(k) ==
  LET chunk == SubSeq(feeding.rest, 1, k)
      fed == Feed(parsers[1], chunk)
  IN
  /\ k \in 1..Len(feeding.rest)
  /\ parsers' = [parsers EXCEPT ![1] = fed.buffer]
  /\ feeding' = [feeding EXCEPT
                   !.rest = SubSeq(@, k + 1, Len(@)),
                   !.out = @ \o fed.parsed,
                   !.chunks = @ + 1]
  /\ UNCHANGED << inv, calls, enableRecurseSubmodules, darwin, input >>

NextParser == \E k \in 1..Len(feeding.rest) : FeedChunk(k)

SpecParser == InitParser /\ [][NextParser]_vars

\* --------------------------------- the autocompleting text input, running
CanOpen(in) == in.autocompletionRequestID < MaxRequests

\* open(str) up to its await: nothing without an element or a caret, else
\* the request takes the next ID and suspends on attemptAutocompletion.
Open(in, str, caretPosition) ==
  IF in.element = "null" \/ caretPosition = NullCaret THEN in
  ELSE [in EXCEPT
          !.autocompletionRequestID = @ + 1,
          !.pending = @ \cup
            { [requestID |-> in.autocompletionRequestID + 1,
               match |-> Match(str, caretPosition, in.alwaysAutocomplete),
               closedSince |-> FALSE] }]

\* open() would start a request.
Opens(in, caretPosition) == in.element # "null" /\ caretPosition # NullCaret

\* close(): the state is set to null.
Close(in) ==
  [in EXCEPT !.autocompletionState = NullState,
             !.pending = { [r EXCEPT !.closedSince = TRUE] : r \in @ }]

getCompletionText(item) == << "@", item >>

\* text.substr(0, n): the first n characters, as many as there are.
Substr0(text, n) ==
  IF n <= 0 THEN << >>
  ELSE IF n >= Len(text) THEN text
  ELSE SubSeq(text, 1, n)

\* text.substring(from): the characters from 0-based index from on.
SubstringFrom(text, from) ==
  IF from >= Len(text) THEN << >>
  ELSE IF from <= 0 THEN text
  ELSE SubSeq(text, from + 1, Len(text))

\* insertCompletion: the completion replaces the range in the element's
\* text, the popup closes and, when the input always autocompletes, a new
\* request starts on the empty string.
insertCompletion(in, item, caretPosition) ==
  LET range == in.autocompletionState.range
      originalText == in.value
      textWithAutoCompleteText ==
        Substr0(originalText, range.start - 1)
          \o getCompletionText(item) \o << " " >>
      newText ==
        textWithAutoCompleteText
          \o SubstringFrom(originalText, range.start + range.length)
      closed == Close([in EXCEPT !.value = newText])
  IN  IF in.alwaysAutocomplete THEN Open(closed, << >>, caretPosition)
      ELSE closed

InputUnchanged ==
  UNCHANGED << inv, calls, enableRecurseSubmodules, darwin, parsers,
               feeding >>

\* onRef: the element is mounted or unmounted.
OnRef(ref) ==
  /\ ref # input.element
  /\ input' = [input EXCEPT !.element = ref]
  /\ InputUnchanged

\* onChange: the user's edit left str in the element.
OnChange(str, caretPosition) ==
  /\ input.element # "null"
  /\ Opens(input, caretPosition) => CanOpen(input)
  /\ input' = Open([input EXCEPT !.value = str], str, caretPosition)
  /\ InputUnchanged

\* onFocus.
OnFocus(caretPosition) ==
  /\ input.element # "null"
  /\ input.alwaysAutocomplete
  /\ Opens(input, caretPosition) => CanOpen(input)
  /\ input' = Open(input, input.value, caretPosition)
  /\ InputUnchanged

\* onBlur.
OnBlur ==
  /\ input.element # "null"
  /\ input' = Close(input)
  /\ InputUnchanged

\* The popup's list is rendered: there is a state and it has items.
ListRendered ==
  ~input.autocompletionState.null /\ input.autocompletionState.items # << >>

\* onKeyDown.
OnKeyDown(key, defaultPrevented) ==
  LET state == input.autocompletionState
      selectedRow == IF state.selectedItem \notin { NullItem, Undefined }
                       THEN IndexOf(state.items, state.selectedItem)
                       ELSE NoRow
      direction == getMovementDirection(key)
      nextRow == findNextSelectableRow(Len(state.items), direction,
                                       selectedRow)
      item == state.selectedItem
  IN
  /\ input.element # "null"
  /\ ~defaultPrevented
  /\ ListRendered
  /\ IF direction # "none"
       THEN /\ nextRow # NoRow
            /\ input' = [input EXCEPT !.autocompletionState =
                           WithSelectedRow(state, nextRow)]
     ELSE IF key \in { "Enter", "Tab" }
       THEN /\ item \notin { NullItem, Undefined }
            /\ input.alwaysAutocomplete => CanOpen(input)
            /\ input' = insertCompletion(input, item,
                 Len(Substr0(input.value, state.range.start - 1)) + 3)
     ELSE /\ key = "Escape"
          /\ input' = Close(input)
  /\ InputUnchanged

\* onSelectedRowChanged: the list selected one of its rows.
OnSelectedRowChanged(row) ==
  /\ ListRendered
  /\ row \in 0..(Len(input.autocompletionState.items) - 1)
  /\ input' = [input EXCEPT !.autocompletionState =
                 WithSelectedRow(input.autocompletionState, row)]
  /\ InputUnchanged

\* onRowMouseDown and insertCompletionOnClick: a row of the list is
\* clicked.
OnRowClick(row, caretPosition) ==
  LET item == At(input.autocompletionState.items, row) IN
  /\ ListRendered
  /\ row \in 0..(Len(input.autocompletionState.items) - 1)
  /\ item \notin { NullItem, Undefined }
  /\ (input.alwaysAutocomplete /\ Opens(input, caretPosition))
       => CanOpen(input)
  /\ input' = insertCompletion(input, item, caretPosition)
  /\ InputUnchanged

\* onAutocompletionListRef: the row id of the selected item is recorded.
OnAutocompletionListRef ==
  LET state == input.autocompletionState IN
  /\ ListRendered
  /\ state.selectedItem \notin { NullItem, Undefined }
  /\ input' = [input EXCEPT !.autocompletionState.selectedRowId =
                 IndexOf(state.items, state.selectedItem)]
  /\ InputUnchanged

\* The autocompleteItemFilter prop changes; componentDidUpdate opens again
\* when the popup is open.
ComponentDidUpdate(filter, caretPosition) ==
  LET in == [input EXCEPT !.autocompleteItemFilter = filter] IN
  /\ filter # input.autocompleteItemFilter
  /\ (~input.autocompletionState.null /\ Opens(input, caretPosition))
       => CanOpen(input)
  /\ input' = IF ~input.autocompletionState.null
                THEN Open(in, input.value, caretPosition)
                ELSE in
  /\ InputUnchanged

\* Variant: the result is written whatever the counter says.
ResolvedWithoutStaleCheck(in, r, items) ==
  [in EXCEPT
     !.pending = @ \ { r },
     !.autocompletionState =
        AttemptResult(r.match, items, in.autocompleteItemFilter),
     !.lastWrite = [requestID |-> r.requestID,
                    closedSince |-> r.closedSince]]

\* open() after its await: the lookup of request r gave items; a request
\* that is no longer the latest returns, the latest sets the state.
Resolved(in, r, items) ==
  IF r.requestID # in.autocompletionRequestID
    THEN [in EXCEPT !.pending = @ \ { r },
                    !.ignored = r.requestID]
    ELSE [in EXCEPT
            !.pending = @ \ { r },
            !.autocompletionState =
               AttemptResult(r.match, items, in.autocompleteItemFilter),
            !.lastWrite = [requestID |-> r.requestID,
                           closedSince |-> r.closedSince]]

\* The lookup of a suspended open() resolves.
OpenResolved(r, items) ==
  /\ r \in input.pending
  /\ input' = Resolved(input, r, items)
  /\ InputUnchanged

Carets == { NullCaret, 1, 2 }

InitInput ==
  /\ inv = [i \in Invs |-> Idle]
  /\ calls = [i \in Invs |-> 0]
  /\ enableRecurseSubmodules = FALSE
  /\ darwin = FALSE
  /\ parsers = << >>
  /\ feeding = NotFeeding
  /\ \E a \in BOOLEAN : input = Constructed(a)

NextInput ==
  \/ \E ref \in { "null", "input" } : OnRef(ref)
  \/ \E str \in Texts, caret \in Carets : OnChange(str, caret)
  \/ \E caret \in Carets : OnFocus(caret)
  \/ OnBlur
  \/ \E key \in Keys, prevented \in BOOLEAN : OnKeyDown(key, prevented)
  \/ \E row \in 0..2 : OnSelectedRowChanged(row)
  \/ \E row \in 0..2, caret \in Carets : OnRowClick(row, caret)
  \/ OnAutocompletionListRef
  \/ \E f \in Filters, caret \in Carets : ComponentDidUpdate(f, caret)
  \/ \E r \in input.pending, items \in ItemLists : OpenResolved(r, items)

SpecInput == InitInput /\ [][NextInput]_vars

\* ------------------------------------------------------------- properties
WithCallback(c) == c.progressCallback # "none"

\* The call has built its argument list.
ArgsBuilt(c) == c.pc \in { "spawn", "git", "settled" } /\ c.args # << >>

RECURSIVE ProgressLines(_)
\* The parsed lines of kind progress, in parse order.
ProgressLines(parsed) ==
  IF parsed = << >> THEN << >>
  ELSE (IF Head(parsed).kind = "progress" THEN << Head(parsed) >> ELSE << >>)
         \o ProgressLines(Tail(parsed))

NonDecreasingValues(events) ==
  \A k \in 1..(Len(events) - 1) : events[k].value <= events[k + 1].value

\* The part of the argument list after getCheckoutArgs' base arguments.
BuilderOutput(c) ==
  SubSeq(c.args, Len(getCheckoutArgs(c.progressCallback)) + 1, Len(c.args))

\* C1: with a progress callback, nothing is delivered before getCheckoutOpts
\* runs, exactly one event (value 0) has been delivered from then until git
\* is started, and whenever git has been started the first delivered event
\* is that value-0 event.
C1_InitialEventBeforeGit ==
  \A i \in Invs :
    LET c == inv[i] IN
    WithCallback(c) =>
      /\ c.pc = "env" => c.events = << >> /\ c.spawned = 0
      /\ c.pc \in { "wrap", "args", "spawn" } =>
            Len(c.events) = 1 /\ c.events[1].value = 0 /\ c.spawned = 0
      /\ c.spawned > 0 => Len(c.events) >= 1 /\ c.events[1].value = 0

C1_Witness ==
  \E i \in Invs :
    /\ WithCallback(inv[i]) /\ inv[i].op = "checkoutCommit"
    /\ inv[i].proc = "running" /\ inv[i].spawned = 1
    /\ Len(inv[i].events) = 1 /\ inv[i].events[1].value = 0

\* C2: an invocation settles exactly once, with true or with an error, and
\* once it has settled no further event reaches the callback.
C2_SettlesOnceThenSilent ==
  [][\A i \in Invs :
       /\ inv'[i].settles <= 1
       /\ (inv'[i].pc = "settled") <=> (inv'[i].settles = 1)
       /\ (inv'[i].settles = 1) <=> (inv'[i].outcome \in { "true", "error" })
       /\ (inv[i].pc = "settled" /\ calls'[i] = calls[i]) =>
            /\ inv'[i].events = inv[i].events
            /\ inv'[i].settles = inv[i].settles
            /\ inv'[i].outcome = inv[i].outcome]_vars

C2_Witness ==
  \E i \in Invs :
    /\ inv[i].progressCallback = "returns" /\ inv[i].pc = "settled"
    /\ inv[i].outcome = "true" /\ Len(inv[i].events) = 3

\* C3 (as claimed): the values of the delivered events never decrease,
\* whatever lines the subprocess writes.
C3_ValuesNonDecreasing ==
  \A i \in Invs : NonDecreasingValues(inv[i].events)

\* C4: after the initial event the delivered events are the parsed lines of
\* kind progress, one event each and in parse order, with the line's percent
\* as value and the line's text as description.
C4_EventsAreProgressLines ==
  \A i \in Invs :
    LET c == inv[i]
        prog == ProgressLines(c.parsed)
    IN  (c.progressCallback = "returns" /\ c.pc \notin { "idle", "env" }) =>
          /\ Len(c.events) = 1 + Len(prog)
          /\ \A k \in 1..Len(prog) :
                /\ c.events[k + 1].value = prog[k].percent
                /\ c.events[k + 1].description = prog[k].details.text

C4_Witness ==
  \E i \in Invs :
    /\ inv[i].progressCallback = "returns"
    /\ Len(inv[i].parsed) = 2 /\ Len(inv[i].events) = 2
    /\ inv[i].parsed[1].kind = "raw" /\ inv[i].parsed[2].kind = "progress"
    /\ inv[i].events[2].value = 25

\* C5: when the percentages of the parsed progress lines never decrease,
\* the values of the delivered events never decrease.
C5_MonotonicInMonotonicOut ==
  \A i \in Invs :
    LET prog == ProgressLines(inv[i].parsed) IN
    (\A k \in 1..(Len(prog) - 1) : prog[k].percent <= prog[k + 1].percent)
      => NonDecreasingValues(inv[i].events)

C5_Witness ==
  \E i \in Invs :
    LET prog == ProgressLines(inv[i].parsed) IN
    /\ Len(prog) = 2 /\ prog[1].percent < prog[2].percent
    /\ Len(inv[i].events) = 3

\* The title and target checkoutBranch / checkoutCommit fix for a call.
TitleOf(c) ==
  IF c.op = "checkoutBranch"
    THEN << "Checking out branch ", c.branch.name >>
    ELSE << "Checking out ", IF darwin THEN "Commit" ELSE "commit" >>

TargetOf(c) ==
  IF c.op = "checkoutBranch" THEN c.branch.name ELSE shortenSHA(c.commit.sha)

\* C6: every delivered event has kind checkout and the title and target
\* the operation fixed when it was called.
C6_ConstantKindTitleTarget ==
  \A i \in Invs :
    \A k \in 1..Len(inv[i].events) :
      /\ inv[i].events[k].kind = "checkout"
      /\ inv[i].events[k].title = TitleOf(inv[i])
      /\ inv[i].events[k].target = TargetOf(inv[i])

C6_Witness ==
  \E i \in Invs :
    /\ inv[i].op = "checkoutBranch" /\ Len(inv[i].events) = 3
    /\ inv[i].events[1].description # inv[i].events[2].description
    /\ inv[i].events[2].value # inv[i].events[3].value

RecurseFlag == "--recurse-submodules"

\* C7: with the flag off when the arguments are built, a remote branch
\* N / L gives an argument list ending in N, -b, L, --.
C7_RemoteBranchSuffix ==
  \A i \in Invs :
    LET c == inv[i] IN
    (/\ ArgsBuilt(c) /\ c.op = "checkoutBranch"
     /\ c.branch.type = "Remote" /\ ~c.flagAtBuild) =>
      /\ BuilderOutput(c) =
           << c.branch.name, "-b", c.branch.nameWithoutRemote, "--" >>
      /\ Suffix(c.args, 4) = BuilderOutput(c)

C7_Witness ==
  \E i \in Invs :
    /\ inv[i].proc = "running" /\ ~inv[i].flagAtBuild
    /\ Suffix(inv[i].gitArgs, 4) =
         << "origin/feature-x", "-b", "feature-x", "--" >>

\* C8: the branch builder's output has --recurse-submodules exactly when
\* the flag was on at build time, for local and remote branches; it then
\* occurs once, immediately before the final --.
C8_RecurseIffFlag ==
  \A i \in Invs :
    LET c == inv[i]
        out == BuilderOutput(c)
    IN  (ArgsBuilt(c) /\ c.op = "checkoutBranch") =>
          /\ Contains(out, RecurseFlag) <=> c.flagAtBuild
          /\ c.flagAtBuild =>
                /\ Count(out, RecurseFlag) = 1
                /\ Len(out) >= 2
                /\ out[Len(out) - 1] = RecurseFlag
                /\ Last(out) = "--"

C8_Witness ==
  \E i \in Invs :
    /\ ArgsBuilt(inv[i]) /\ inv[i].op = "checkoutBranch"
    /\ inv[i].branch.type = "Local" /\ inv[i].flagAtBuild
    /\ ~enableRecurseSubmodules
    /\ Contains(inv[i].args, RecurseFlag)

\* C9: the argument list checkoutBranch passes to git ends in --, and --
\* occurs exactly once in the branch builder's output.
C9_SeparatorTerminates ==
  \A i \in Invs :
    LET c == inv[i] IN
    (c.op = "checkoutBranch" /\ c.spawned > 0) =>
      /\ Last(c.gitArgs) = "--"
      /\ Count(BuilderOutput(c), "--") = 1
      /\ c.gitArgs = c.args

C9_Witness ==
  \E i \in Invs :
    /\ inv[i].op = "checkoutBranch" /\ inv[i].spawned = 1
    /\ inv[i].branch.type = "Remote" /\ inv[i].flagAtBuild
    /\ ~WithCallback(inv[i]) /\ Last(inv[i].gitArgs) = "--"

\* C10: the argument list checkoutCommit passes to git ends in the full
\* SHA, which is not the shortened target, and has neither -b nor
\* --recurse-submodules, whatever the flag.
C10_CommitArgs ==
  \A i \in Invs :
    LET c == inv[i] IN
    (c.op = "checkoutCommit" /\ c.spawned > 0) =>
      /\ Last(c.gitArgs) = c.commit.sha
      /\ Last(c.gitArgs) # c.target
      /\ c.gitArgs = getCheckoutArgs(c.progressCallback) \o << c.commit.sha >>
      /\ ~Contains(c.gitArgs, "-b")
      /\ ~Contains(c.gitArgs, RecurseFlag)

C10_Witness ==
  \E i \in Invs :
    /\ inv[i].op = "checkoutCommit" /\ inv[i].spawned = 1
    /\ inv[i].flagAtBuild /\ WithCallback(inv[i])
    /\ Last(inv[i].gitArgs) = "abc123def4567890"
    /\ inv[i].target = "abc123def"

\* The position of the subcommand in an argument list of a checkout.
CheckoutAt == Len(gitNetworkArguments) + 1

\* C11: the argument list checkoutBranch and checkoutCommit pass to git
\* starts with all network arguments, then checkout; checkout occurs nowhere
\* before that position.
C11_NetworkArgsThenCheckout ==
  \A i \in DOMAIN inv :
    LET c == inv[i] IN
    (c.op \in { "checkoutBranch", "checkoutCommit" } /\ c.spawned > 0) =>
      /\ Len(c.gitArgs) > CheckoutAt
      /\ SubSeq(c.gitArgs, 1, CheckoutAt - 1) = gitNetworkArguments
      /\ c.gitArgs[CheckoutAt] = "checkout"
      /\ \A k \in 1..(CheckoutAt - 1) :
            c.gitArgs[k] \notin
              { "checkout", "--progress", "-b", "--", RecurseFlag,
                c.branch.name, c.branch.nameWithoutRemote, c.commit.sha }

C11_Witness ==
  \E i \in DOMAIN inv :
    /\ inv[i].op = "checkoutCommit" /\ inv[i].spawned = 1
    /\ ~WithCallback(inv[i])
    /\ inv[i].gitArgs =
         << "-c", "credential.helper=", "checkout", "abc123def4567890" >>

\* C12: --progress is passed exactly when a callback was supplied, right
\* after checkout; without a callback no event is ever delivered and the
\* options carry no process callback and no progress tracking.
C12_ProgressIffCallback ==
  \A i \in DOMAIN inv :
    LET c == inv[i] IN
    c.op \in { "checkoutBranch", "checkoutCommit" } =>
      /\ ArgsBuilt(c) =>
            /\ Contains(c.args, "--progress") <=> WithCallback(c)
            /\ WithCallback(c) =>
                  /\ c.args[CheckoutAt] = "checkout"
                  /\ c.args[CheckoutAt + 1] = "--progress"
                  /\ Count(c.args, "--progress") = 1
      /\ ~WithCallback(c) =>
            /\ c.events = << >>
            /\ ~c.opts.processCallback
            /\ ~c.opts.trackLFSProgress
      /\ (c.opts.processCallback \/ c.events # << >>) => WithCallback(c)

C12_Witness ==
  \E i \in DOMAIN inv :
    /\ inv[i].op = "checkoutBranch" /\ ~WithCallback(inv[i])
    /\ inv[i].proc = "exited" /\ inv[i].written = 2
    /\ inv[i].events = << >> /\ ~Contains(inv[i].gitArgs, "--progress")

\* C13: git is started at most once per invocation; the operation returns
\* true only when that one subprocess exited with success, and when it
\* failed the operation rejects with the error of that failure.
C13_NoRetrySingleOutcome ==
  \A i \in DOMAIN inv :
    LET c == inv[i] IN
    c.op \in { "checkoutBranch", "checkoutCommit" } =>
      /\ c.spawned <= 1
      /\ c.outcome = "true" =>
            c.spawned = 1 /\ c.proc = "exited" /\ c.exit = GitSuccess
      /\ (c.proc = "exited" /\ c.exit # GitSuccess) =>
            /\ c.pc = "settled" /\ c.outcome = "error"
            /\ c.error.kind \in { "Authentication", "Generic" }
            /\ c.error.code = c.exit.code
            /\ c.error.stderr = c.exit.stderr
            /\ c.error.stdout = c.exit.stdout
      /\ (c.outcome = "error" /\ c.spawned = 1) => c.exit \in GitFailures

C13_Witness ==
  \E i \in DOMAIN inv :
    /\ inv[i].op = "checkoutBranch" /\ inv[i].pc = "settled"
    /\ inv[i].spawned = 1 /\ inv[i].outcome = "error"
    /\ inv[i].error.kind = "Authentication" /\ inv[i].exit.code = 128

\* C14: checkoutPaths passes git checkout, HEAD, -- and then the paths as
\* given and in their order; it delivers no event, passes no --progress
\* and hands git no options.
C14_CheckoutPaths ==
  \A i \in DOMAIN inv :
    LET c == inv[i] IN
    c.op = "checkoutPaths" =>
      /\ c.spawned = 1
      /\ Len(c.gitArgs) = 3 + Len(c.paths)
      /\ SubSeq(c.gitArgs, 1, 3) = << "checkout", "HEAD", "--" >>
      /\ \A k \in 1..Len(c.paths) : c.gitArgs[3 + k] = c.paths[k]
      /\ ~Contains(c.gitArgs, "--progress")
      /\ c.events = << >> /\ c.parsed = << >>
      /\ c.opts = NoOpts

C14_Witness ==
  \E i \in DOMAIN inv :
    /\ inv[i].op = "checkoutPaths" /\ inv[i].pc = "settled"
    /\ inv[i].written = 2 /\ inv[i].events = << >>
    /\ inv[i].gitArgs = << "checkout", "HEAD", "--", "b.txt", "a.txt" >>

\* C15: every checkoutBranch call reads the flag when it builds its
\* arguments: the list it builds has --recurse-submodules exactly when the
\* flag is on at that step, whatever earlier calls read.
C15_FlagReadEveryCall ==
  [][\A i \in DOMAIN inv :
       (/\ inv[i].op = "checkoutBranch"
        /\ inv[i].pc = "args" /\ inv'[i].pc = "spawn") =>
         /\ Contains(inv'[i].args, RecurseFlag) <=> enableRecurseSubmodules
         /\ Contains(inv'[i].args, RecurseFlag) <=> inv'[i].flagAtBuild
         /\ enableRecurseSubmodules' = enableRecurseSubmodules]_vars

C15_Witness ==
  \E i \in DOMAIN inv :
    /\ inv[i].op = "checkoutBranch" /\ calls[i] = 2 /\ inv[i].spawned = 1
    /\ inv[i].flagBefore = "on" /\ ~inv[i].flagAtBuild
    /\ ~Contains(inv[i].gitArgs, RecurseFlag)

\* The inputs of the argument builders for one call.
SameBuilderInputs(c, d) ==
  /\ c.op = d.op /\ c.branch = d.branch /\ c.commit = d.commit
  /\ c.flagAtBuild = d.flagAtBuild
  /\ WithCallback(c) = WithCallback(d)

\* The step that runs the builders for invocation i.
BuilderStep(i) == inv[i].pc = "args" /\ inv'[i].pc = "spawn"

\* C16: two invocations that give the builders the same branch, flag value
\* and callback presence get equal argument lists, and the step that runs
\* the builders starts no subprocess, delivers no event, leaves the branch
\* descriptor, the options and every other invocation as they were.
C16_BuildersPure ==
  [][/\ \A i, j \in DOMAIN inv :
          (ArgsBuilt(inv'[i]) /\ ArgsBuilt(inv'[j])
             /\ SameBuilderInputs(inv'[i], inv'[j]))
            => inv'[i].args = inv'[j].args
     /\ \A i \in DOMAIN inv :
          BuilderStep(i) =>
            /\ inv'[i].spawned = inv[i].spawned
            /\ inv'[i].proc = inv[i].proc
            /\ inv'[i].events = inv[i].events
            /\ inv'[i].branch = inv[i].branch
            /\ inv'[i].commit = inv[i].commit
            /\ inv'[i].opts = inv[i].opts
            /\ \A j \in DOMAIN inv \ {i} : inv'[j] = inv[j]
            /\ parsers' = parsers]_vars

C16_Witness ==
  /\ inv[1].op = "checkoutBranch" /\ inv[1].branch.type = "Remote"
  /\ inv[1].pc = "spawn" /\ inv[1].spawned = 0 /\ inv[1].flagAtBuild
  /\ inv[2].pc = "git" /\ SameBuilderInputs(inv[1], inv[2])
  /\ inv[1].args = inv[2].args
  /\ ~enableRecurseSubmodules

\* C17: a call that tracks progress gets a parser instance made for it,
\* with an empty buffer, that no earlier or concurrent invocation holds;
\* a parser's buffer changes only in a step of the invocation holding it.
C17_OwnParser ==
  [][/\ \A i, j \in DOMAIN inv :
          (i # j /\ inv'[i].parser # 0) => inv'[i].parser # inv'[j].parser
     /\ \A i \in DOMAIN inv :
          (inv[i].parser = 0 /\ inv'[i].parser # 0) =>
            /\ Len(parsers') = Len(parsers) + 1
            /\ inv'[i].parser = Len(parsers')
            /\ parsers'[Len(parsers')] = << >>
            /\ SubSeq(parsers', 1, Len(parsers)) = parsers
     /\ \A k \in 1..Len(parsers) :
          (Len(parsers') >= k /\ parsers'[k] # parsers[k]) =>
            \E i \in DOMAIN inv :
              /\ inv[i].parser = k /\ inv[i].proc = "running"
              /\ inv'[i].pipe # inv[i].pipe \/ inv'[i].proc = "exited"
              /\ \A j \in DOMAIN inv \ {i} : inv'[j] = inv[j]
     /\ Len(parsers') >= Len(parsers)]_vars

C17_Witness ==
  /\ inv[1].parser # 0 /\ inv[2].parser # 0
  /\ inv[1].parser # inv[2].parser
  /\ parsers[inv[1].parser] = << "K", "2" >>
  /\ parsers[inv[2].parser] = << "K", "5" >>
  /\ Len(inv[1].parsed) = 1 /\ Len(inv[2].parsed) = 1

\* C18: with two invocations running side by side, every event an
\* invocation's callback got carries that invocation's own title and
\* target, its events follow its own parsed progress lines in order, which
\* are no more than its own subprocess wrote, and no step changes the state
\* of two invocations.
C18_ConcurrentIsolation ==
  [][/\ \A i \in DOMAIN inv :
          LET c == inv'[i]
              prog == ProgressLines(c.parsed)
          IN  /\ \A k \in 1..Len(c.events) :
                    /\ c.events[k].title = TitleOf(c)
                    /\ c.events[k].target = TargetOf(c)
              /\ c.opts.processCallback =>
                    /\ Len(c.events) = 1 + Len(prog)
                    /\ \A k \in 1..Len(prog) :
                          c.events[k + 1].value = prog[k].percent
                    /\ Len(c.parsed) <= c.written
                    /\ c.pipe = << >> => Len(c.parsed) = c.written
     /\ \A i, j \in DOMAIN inv :
          (i # j /\ inv'[i] # inv[i]) => inv'[j] = inv[j]]_vars

C18_Witness ==
  /\ inv[1].op = "checkoutBranch" /\ inv[2].op = "checkoutCommit"
  /\ inv[1].proc = "running" /\ inv[2].proc = "running"
  /\ Len(inv[1].events) = 3 /\ Len(inv[2].events) = 3
  /\ inv[1].events[2].value = 50 /\ inv[1].events[3].value = 25
  /\ inv[2].events[2].value = 25 /\ inv[2].events[3].value = 50
  /\ inv[1].events[3].target # inv[2].events[3].target

\* C19: however a known progress line is cut into chunks, the parser gives
\* nothing before the line is complete and then exactly the one parsed line
\* it gives for the whole line fed at once: a progress line with the line's
\* percentage and text.
C19_ChunkBoundaryInvariance ==
  LET line == SubSeq(feeding.text, 1, Len(feeding.text) - 1)
      whole == Feed(<< >>, feeding.text)
  IN  feeding.text # << >> =>
        /\ feeding.rest # << >> => feeding.out = << >>
        /\ feeding.rest = << >> =>
              /\ feeding.out = whole.parsed
              /\ parsers[1] = whole.buffer
              /\ Len(feeding.out) = 1
              /\ feeding.out[1].kind = "progress"
              /\ feeding.out[1].percent = KnownPercent(line)
              /\ feeding.out[1].details.text = line

C19_Witness ==
  /\ feeding.text = <<"K", "2", "5", "%", CR>>
  /\ feeding.rest = << >> /\ feeding.chunks = 5
  /\ Len(feeding.out) = 1 /\ feeding.out[1].percent = 25

\* Some signature of the table occurs in the captured stderr or stdout.
HasSignature(table, result) ==
  \E k \in 1..Len(table) :
    \/ Infix(table[k].signature, result.stderr)
    \/ Infix(table[k].signature, result.stdout)

\* C20: a failed git of checkoutBranch / checkoutCommit is classified
\* against the authentication-error table: when its output contains one of
\* the table's signatures the error has kind Authentication and keeps that
\* signature, otherwise it has kind Generic and no signature; the raw
\* output is kept in both cases.
C20_ClassifiedAgainstAuthTable ==
  \A i \in DOMAIN inv :
    LET c == inv[i] IN
    (/\ c.op \in { "checkoutBranch", "checkoutCommit" }
     /\ c.proc = "exited" /\ c.exit.code # 0) =>
      /\ c.opts.expectedErrors = "AuthenticationErrors"
      /\ c.error.stderr = c.exit.stderr /\ c.error.stdout = c.exit.stdout
      /\ HasSignature(AuthenticationErrors, c.exit) =>
            /\ c.error.kind = "Authentication"
            /\ \E k \in 1..Len(AuthenticationErrors) :
                  c.error.signature = AuthenticationErrors[k].signature
            /\ \/ Infix(c.error.signature, c.exit.stderr)
               \/ Infix(c.error.signature, c.exit.stdout)
      /\ ~HasSignature(AuthenticationErrors, c.exit) =>
            c.error.kind = "Generic" /\ c.error.signature = << >>
      /\ c.exit.stderr =
           << "fatal:", "Authentication", "failed", "for", "url" >> =>
            c.error.signature = << "Authentication", "failed" >>
      /\ c.exit.stderr = << "error:", "pathspec", "unknown" >>
            => c.error.kind = "Generic"

C20_Witness ==
  \E i \in DOMAIN inv :
    /\ inv[i].op = "checkoutCommit" /\ inv[i].pc = "settled"
    /\ inv[i].exit.stdout = << "Permission", "denied", "(publickey)" >>
    /\ inv[i].error.kind = "Authentication"
    /\ inv[i].error.signature = << "Permission", "denied" >>

\* C21: the branch builder's output contains -b exactly when the branch is
\* of type Remote, whichever value the flag had at build time: a remote
\* branch gives its full name, -b, its name without the remote prefix, and
\* a local branch gives its bare name, followed only by the flag (when on)
\* and the separator.
C21_DashBIffRemote ==
  \A i \in Invs :
    LET c == inv[i]
        out == BuilderOutput(c)
    IN  (ArgsBuilt(c) /\ c.op = "checkoutBranch") =>
          /\ Contains(out, "-b") <=> c.branch.type = "Remote"
          /\ c.branch.type = "Remote" =>
                /\ Len(out) >= 3
                /\ SubSeq(out, 1, 3) =
                     << c.branch.name, "-b", c.branch.nameWithoutRemote >>
                /\ Count(out, "-b") = 1
          /\ c.branch.type = "Local" =>
                out = << c.branch.name >>
                        \o (IF c.flagAtBuild THEN << RecurseFlag >> ELSE << >>)
                        \o << "--" >>

C21_Witness ==
  \E i \in Invs :
    /\ ArgsBuilt(inv[i]) /\ inv[i].op = "checkoutBranch"
    /\ inv[i].branch.type = "Remote" /\ inv[i].flagAtBuild
    /\ WithCallback(inv[i])
    /\ SubSeq(BuilderOutput(inv[i]), 1, 3) =
         << "origin/feature-x", "-b", "feature-x" >>

\* C22: when the progress callback throws at the initial (value 0) event,
\* checkoutBranch / checkoutCommit reject with that exception, once, and
\* git is never started for that invocation: nothing after the initial
\* event is delivered, no argument list is built, no subprocess exists.
C22_ThrowingCallbackRejectsBeforeGit ==
  \A i \in Invs :
    LET c == inv[i] IN
    (/\ c.op \in { "checkoutBranch", "checkoutCommit" }
     /\ c.progressCallback = "throws") =>
      /\ c.spawned = 0 /\ c.proc = "none" /\ c.gitArgs = << >>
      /\ c.pc \in { "env", "settled" }
      /\ c.pc = "settled" =>
            /\ c.outcome = "error" /\ c.error = SinkException
            /\ c.settles = 1
            /\ Len(c.events) = 1 /\ c.events[1].value = 0

C22_Witness ==
  \E i \in Invs :
    /\ inv[i].op = "checkoutBranch" /\ inv[i].progressCallback = "throws"
    /\ inv[i].pc = "settled" /\ inv[i].error.kind = "exception"
    /\ inv[i].spawned = 0 /\ Len(inv[i].events) = 1
    /\ calls[i] = 2

\* C23: once getCheckoutOpts has returned, the options of checkoutBranch /
\* checkoutCommit carry the environment overlay of the account and the
\* authentication-error table, with or without a progress callback; the
\* progress adapter only adds LFS tracking and the process callback, which
\* are absent without a callback.  The options git receives are those.
C23_ProgressKeepsEnvAndErrors ==
  \A i \in Invs :
    LET c == inv[i] IN
    (/\ c.op \in { "checkoutBranch", "checkoutCommit" }
     /\ c.pc \in { "args", "spawn", "git", "settled" }
     /\ c.progressCallback \in { "none", "returns" }) =>
      /\ c.opts.env = envForRemoteOperation(c.account)
      /\ c.opts.expectedErrors = "AuthenticationErrors"
      /\ c.opts.trackLFSProgress <=> WithCallback(c)
      /\ c.opts.processCallback <=> WithCallback(c)
      /\ [c.opts EXCEPT !.trackLFSProgress = FALSE,
                        !.processCallback = FALSE] = BaseOpts(c.account)

C23_Witness ==
  \E i \in Invs :
    /\ inv[i].op = "checkoutBranch" /\ inv[i].proc = "running"
    /\ inv[i].progressCallback = "returns" /\ inv[i].account = "account"
    /\ inv[i].opts.processCallback
    /\ inv[i].opts.env = { "GIT_TERMINAL_PROMPT", "GIT_ASKPASS" }
    /\ inv[i].opts.expectedErrors = "AuthenticationErrors"

\* The IDs of the open() requests suspended on their lookup.
PendingIDs(in) == { r.requestID : r \in in.pending }

\* C24: when the lookup of an open() request completes and the request's
\* ID differs from the request counter, autocompletionState is left as it
\* is; a result is only ever written by a request that completes while its
\* ID is the counter's value, i.e. by the request started last.
C24_OnlyLatestRequestWrites ==
  [][LET done == PendingIDs(input) \ PendingIDs(input')
     IN  /\ \A id \in done :
              id # input.autocompletionRequestID =>
                /\ input'.autocompletionState = input.autocompletionState
                /\ input'.lastWrite = input.lastWrite
         /\ input'.lastWrite # input.lastWrite =>
              /\ input'.lastWrite.requestID = input.autocompletionRequestID
              /\ input'.lastWrite.requestID \in done
              /\ \A r \in input.pending :
                   r.requestID <= input'.lastWrite.requestID]_vars

C24_Witness ==
  /\ input.autocompletionRequestID = 2
  /\ input.ignored = 1 /\ input.lastWrite.requestID = 2
  /\ ~input.autocompletionState.null
  /\ input.autocompletionState.items = << "a", "b" >>
  /\ input.pending = {}

\* C25: while the popup is open, the request that opened it was started
\* after the last close(): no open() over which close() ran sets the state
\* to a non-null value.
C25_ClosedStaysClosed ==
  ~input.autocompletionState.null => ~input.lastWrite.closedSince

\* C26: whenever autocompletionState is non-null, its selectedItem is null
\* or one of its items.
C26_SelectedItemAmongItems ==
  ~input.autocompletionState.null =>
    LET state == input.autocompletionState IN
    \/ state.selectedItem = NullItem
    \/ \E k \in 1..Len(state.items) : state.items[k] = state.selectedItem

C26_Witness ==
  /\ ~input.autocompletionState.null
  /\ input.autocompletionState.items = << "b", "a", "c" >>
  /\ input.autocompletionState.selectedItem = "c"
  /\ input.autocompletionState.selectedRowId = 2
  /\ input.lastWrite.requestID = 2

====
